---- MODULE Spec2Model ----
(***************************************************************************)
(* Model of HelloTriangleApplication (src/Vulkan_Tutorial/Main.cpp): the   *)
(* frame loop MainLoop/DrawFrame, one CPU thread, running against the      *)
(* asynchronous graphics queue, present queue and presentation engine.     *)
(* Every Vulkan call of DrawFrame is one atomic step of the CPU thread;    *)
(* the GPU and the presentation engine take steps in between.              *)
(***************************************************************************)
EXTENDS Integers, Sequences, FiniteSets, TLC

\* ---------------------------------------------------------------- bounds
\* number of images the swap chain holds
NumImages == 2
\* number of DrawFrame invocations after which the window is closed
MaxFrames == 4
\* the same, in the runs that start at InitWindow
MaxRunFrames == 2
\* number of physical devices the instance enumerates, at most
MaxDevices == 1
\* number of queue families of a physical device, at most
MaxFamilies == 2
\* length of the format list and of the present-mode list, at most
MaxListLen == 2
\* the small image counts a surface reports: 0 .. MaxCount
MaxCount == 3
\* the small widths and heights a surface reports: 0 .. MaxExtent
MaxExtent == 2

\* ------------------------------------------------------ program constants
MAX_FRAMES_IN_FLIGHT == 2
EXIT_SUCCESS == 0
EXIT_FAILURE == 1
WIDTH == 800
HEIGHT == 600
\* a uint32_t is held as two 16-bit halves
Half == 65536

Slots == 0 .. (MAX_FRAMES_IN_FLIGHT - 1)
Images == 0 .. (NumImages - 1)
\* value of a field a call does not use
None == -1

VARIABLES
    pc,                         \* statement the CPU thread is at
    shouldClose,                \* the window's close flag
    currentFrame,
    imageIndex,                 \* local of DrawFrame
    inFlightFences,             \* slot -> signaled
    imageAvailableSemaphores,   \* slot -> signaled
    renderFinishedSemaphores,   \* slot -> signaled
    commandBuffers,             \* slot -> [state, fb]
    pendingAcquire,             \* semaphores the presentation engine will signal
    images,                     \* image -> "free" | "acquired" | "presented"
    graphicsQueue,              \* submissions enqueued and not yet completed
    presentQueue,               \* present requests enqueued and not yet executed
    exitCode,                   \* None while the process runs
    frames,                     \* DrawFrame invocations started
    framesDone,                 \* DrawFrame invocations that returned
    iterSlot,                   \* currentFrame when the invocation started
    ops,                        \* calls made by the current DrawFrame invocation
    frameCap,                   \* DrawFrame invocation in which the window is closed at the latest
    window,                     \* "none" | "open" | "destroyed"
    ran,                        \* steps of InitVulkan entered so far
    created,                    \* create calls that succeeded, in order
    destroyed,                  \* destroy calls made, in order
    devices,                    \* local of PickPhysicalDevice: the enumerated devices
    physicalDevice,             \* NullHandle or the device picked
    support,                    \* what QuerySwapChainSupport returns in CreateSwapChain
    createInfo,                 \* what CreateSwapChain hands to vkCreateSwapchainKHR
    framebufferSize,            \* what glfwGetFramebufferSize gives in ChooseSwapExtent
    queueFamilies,              \* the families FindQueueFamilies sees on the picked device
    queueCreateInfos,           \* local of CreateLogicalDevice: the queue entries of the request
    swapChainMembers            \* what the swap chain builders store in the application object

\* state of Run outside the frame loop
runVars == <<frameCap, window, ran, created, destroyed, devices, physicalDevice>>

\* state of the negotiation made by CreateSwapChain
negVars == <<support, createInfo, framebufferSize, queueFamilies,
             queueCreateInfos, swapChainMembers>>

\* state of the frame loop
loopVars == <<shouldClose, currentFrame, imageIndex, inFlightFences,
              imageAvailableSemaphores, renderFinishedSemaphores, commandBuffers,
              pendingAcquire, images, graphicsQueue, presentQueue,
              frames, framesDone, iterSlot, ops>>

vars == <<pc, shouldClose, currentFrame, imageIndex, inFlightFences,
          imageAvailableSemaphores, renderFinishedSemaphores, commandBuffers,
          pendingAcquire, images, graphicsQueue, presentQueue, exitCode,
          frames, framesDone, iterSlot, ops, runVars, negVars>>

cpuVars == <<pc, shouldClose, currentFrame, imageIndex, exitCode, frames,
             framesDone, iterSlot, ops>>

\* ------------------------------------------------------------- helpers
RemoveAt(s, i) == SubSeq(s, 1, i - 1) \o SubSeq(s, i + 1, Len(s))

\* one entry of ops: the call, the slot index of every object it names, its
\* result and the image index it carries
Call(name, fenceSlot, waitSlot, signalSlot, cbSlot, res, idx) ==
    [op |-> name, fence |-> fenceSlot, wait |-> waitSlot, signal |-> signalSlot,
     cb |-> cbSlot, res |-> res, idx |-> idx]

\* order of the statements of DrawFrame
NextStep_SkipPresent(step) ==
    CASE step = "wait"    -> "reset"
      [] step = "reset"   -> "acquire"
      [] step = "acquire" -> "resetcb"
      [] step = "resetcb" -> "record"
      [] step = "record"  -> "submit"
      [] step = "submit"  -> "advance"
      [] step = "present" -> "advance"
      [] step = "advance" -> "loop"

NextStep(step) ==
    CASE step = "wait"    -> "reset"
      [] step = "reset"   -> "acquire"
      [] step = "acquire" -> "resetcb"
      [] step = "resetcb" -> "record"
      [] step = "record"  -> "submit"
      [] step = "submit"  -> "present"
      [] step = "present" -> "advance"
      [] step = "advance" -> "loop"

\* (currentFrame + 1) % MAX_FRAMES_IN_FLIGHT; currentFrame stays below
\* MAX_FRAMES_IN_FLIGHT, so the uint32_t addition never wraps
NextFrame_NoAdvance(c) == c % MAX_FRAMES_IN_FLIGHT

NextFrame(c) == (c + 1) % MAX_FRAMES_IN_FLIGHT

\* index of the image-available semaphore the submit waits on
waitSemaphores_Other == (currentFrame + 1) % MAX_FRAMES_IN_FLIGHT

waitSemaphores == currentFrame

\* index of the render-finished semaphore the submit signals and the present
\* waits on
signalSemaphores_Other == (currentFrame + 1) % MAX_FRAMES_IN_FLIGHT

signalSemaphores == currentFrame

\* when the call at a step gives control back to the CPU thread: the fence
\* wait and the acquire are made with timeout UINT64_MAX, the other calls
\* only enqueue or change host state
CallReturns_NoThrottle(step) ==
    CASE step = "acquire" -> \E i \in DOMAIN images : images[i] = "free"
      [] OTHER            -> TRUE

CallReturns_WaitAll(step) ==
    CASE step = "wait"    -> \A k \in Slots : inFlightFences[k]
      [] step = "acquire" -> \E i \in DOMAIN images : images[i] = "free"
      [] OTHER            -> TRUE

CallReturns_SubmitWaits(step) ==
    CASE step = "wait"    -> inFlightFences[currentFrame]
      [] step = "acquire" -> \E i \in DOMAIN images : images[i] = "free"
      [] step = "submit"  -> imageAvailableSemaphores[currentFrame]
      [] OTHER            -> TRUE

CallReturns(step) ==
    CASE step = "wait"    -> inFlightFences[currentFrame]
      [] step = "acquire" -> \E i \in DOMAIN images : images[i] = "free"
      [] OTHER            -> TRUE

\* the test DrawFrame makes on the result of vkQueueSubmit
SubmitFailed_Ignored(res) == FALSE

SubmitFailed(res) == res # "VK_SUCCESS"

SubmitResults  == {"VK_SUCCESS", "VK_ERROR_DEVICE_LOST"}
\* a present rejected as out of date is still enqueued; one that fails for
\* lack of memory leaves every object as it was
PresentResults == {"VK_SUCCESS", "VK_ERROR_OUT_OF_DATE_KHR",
                   "VK_ERROR_OUT_OF_HOST_MEMORY"}
RecordResults  == {"VK_SUCCESS", "BEGIN_FAILED", "END_FAILED"}


\* ------------------------------------------------- objects and bring-up
\* NDEBUG is not defined
enableValidationLayers == TRUE

NullHandle == "VK_NULL_HANDLE"
PickedHandle == "VkPhysicalDevice"

Obj(kind, idx) == [kind |-> kind, idx |-> idx]

\* swapChainImages.size(): the image list is empty until CreateSwapChain has
\* fetched the images of the chain; swapChainImageViews and
\* swapChainFramebuffers are resized to it
swapChainImagesSize == Cardinality(DOMAIN images)

\* swapChainImageViews.size() after the resize of CreateImageViews
swapChainImageViewsSize == swapChainImagesSize

\* swapChainFramebuffers.size() after the resize of CreateFrameBuffers
swapChainFramebuffersSize_OneShort == swapChainImageViewsSize - 1

swapChainFramebuffersSize == swapChainImageViewsSize

\* the images a chain can hold
SwapChainImages == {[i \in 0 .. (n - 1) |-> "free"] : n \in 1 .. NumImages}

\* the calls of InitVulkan, in order
InitVulkanSteps ==
    <<"CreateInstance", "SetupDebugMessenger", "CreateSurface",
      "PickPhysicalDevice", "CreateLogicalDevice", "CreateSwapChain",
      "CreateImageViews", "CreateRenderPass", "CreateGraphicsPipeline",
      "CreateFrameBuffers", "CreateCommandPool", "CreateCommandBuffers",
      "CreateSyncObjects">>

StepIndex(step) == CHOOSE i \in DOMAIN InitVulkanSteps : InitVulkanSteps[i] = step

\* where Run goes when a step of InitVulkan returns
StepAfter(step) ==
    IF StepIndex(step) < Len(InitVulkanSteps)
        THEN InitVulkanSteps[StepIndex(step) + 1]
        ELSE "loop"

\* the objects of CreateSyncObjects: per slot the two semaphores, then the fence
SyncObjects ==
    [j \in 1 .. 3 * MAX_FRAMES_IN_FLIGHT |->
        Obj(CASE (j - 1) % 3 = 0 -> "imageAvailableSemaphore"
              [] (j - 1) % 3 = 1 -> "renderFinishedSemaphore"
              [] OTHER           -> "inFlightFence",
            (j - 1) \div 3)]

ShaderModules == <<Obj("shaderModule", 0), Obj("shaderModule", 1)>>

\* the create calls a step of InitVulkan makes, in order
MadeBy(step) ==
    CASE step = "CreateInstance"         -> <<Obj("instance", None)>>
      [] step = "SetupDebugMessenger"    ->
            IF enableValidationLayers THEN <<Obj("debugMessenger", None)>>
                                      ELSE <<>>
      [] step = "CreateSurface"          -> <<Obj("surface", None)>>
      [] step = "PickPhysicalDevice"     -> <<>>
      [] step = "CreateLogicalDevice"    -> <<Obj("device", None)>>
      [] step = "CreateSwapChain"        -> <<Obj("swapChain", None)>>
      [] step = "CreateImageViews"       ->
            [j \in 1 .. swapChainImageViewsSize |-> Obj("imageView", j - 1)]
      [] step = "CreateRenderPass"       -> <<Obj("renderPass", None)>>
      [] step = "CreateGraphicsPipeline" ->
            ShaderModules \o <<Obj("pipelineLayout", None),
                               Obj("graphicsPipeline", None)>>
      [] step = "CreateFrameBuffers"     ->
            [j \in 1 .. swapChainFramebuffersSize |-> Obj("framebuffer", j - 1)]
      [] step = "CreateCommandPool"      -> <<Obj("commandPool", None)>>
      [] step = "CreateCommandBuffers"   -> <<Obj("commandBuffers", None)>>
      [] step = "CreateSyncObjects"      -> SyncObjects

\* the destroy calls of Cleanup, in order
CleanupCalls_ViewsBeforeFramebuffers ==
    SyncObjects
    \o <<Obj("commandPool", None)>>
    \o [j \in 1 .. swapChainImageViewsSize |-> Obj("imageView", j - 1)]
    \o <<Obj("graphicsPipeline", None), Obj("pipelineLayout", None),
         Obj("renderPass", None)>>
    \o [j \in 1 .. swapChainFramebuffersSize |-> Obj("framebuffer", j - 1)]
    \o <<Obj("swapChain", None), Obj("device", None)>>
    \o (IF enableValidationLayers THEN <<Obj("debugMessenger", None)>> ELSE <<>>)
    \o <<Obj("surface", None), Obj("instance", None)>>

CleanupCalls ==
    SyncObjects
    \o <<Obj("commandPool", None)>>
    \o [j \in 1 .. swapChainFramebuffersSize |-> Obj("framebuffer", j - 1)]
    \o <<Obj("graphicsPipeline", None), Obj("pipelineLayout", None),
         Obj("renderPass", None)>>
    \o [j \in 1 .. swapChainImageViewsSize |-> Obj("imageView", j - 1)]
    \o <<Obj("swapChain", None), Obj("device", None)>>
    \o (IF enableValidationLayers THEN <<Obj("debugMessenger", None)>> ELSE <<>>)
    \o <<Obj("surface", None), Obj("instance", None)>>

RECURSIVE Concat(_, _)
Concat(steps, i) ==
    IF i > Len(steps) THEN <<>> ELSE MadeBy(steps[i]) \o Concat(steps, i + 1)

\* everything InitVulkan has created when it returns
AllCreated == Concat(InitVulkanSteps, 1)

\* the objects a create call is handed, directly or through the members and
\* queries it reads: the physical device belongs to the instance,
\* FindQueueFamilies asks about the surface, the render pass takes the format
\* of the chain and the framebuffers its extent
Reads(o) ==
    CASE o.kind = "instance"         -> {}
      [] o.kind = "debugMessenger"   -> {Obj("instance", None)}
      [] o.kind = "surface"          -> {Obj("instance", None)}
      [] o.kind = "device"           -> {Obj("instance", None),
                                         Obj("surface", None)}
      [] o.kind = "swapChain"        -> {Obj("device", None),
                                         Obj("surface", None)}
      [] o.kind = "imageView"        -> {Obj("device", None),
                                         Obj("swapChain", None)}
      [] o.kind = "renderPass"       -> {Obj("device", None),
                                         Obj("swapChain", None)}
      [] o.kind = "shaderModule"     -> {Obj("device", None)}
      [] o.kind = "pipelineLayout"   -> {Obj("device", None)}
      [] o.kind = "graphicsPipeline" ->
            {Obj("device", None), Obj("pipelineLayout", None),
             Obj("renderPass", None)}
            \cup {ShaderModules[j] : j \in DOMAIN ShaderModules}
      [] o.kind = "framebuffer"      ->
            {Obj("device", None), Obj("renderPass", None),
             Obj("swapChain", None), Obj("imageView", o.idx)}
      [] o.kind = "commandPool"      -> {Obj("device", None),
                                         Obj("surface", None)}
      [] o.kind = "commandBuffers"   -> {Obj("device", None),
                                         Obj("commandPool", None)}
      [] OTHER                       -> {Obj("device", None)}

\* the objects a created object goes on using while it lives: what its create
\* call was handed, except the shader modules, which CreateGraphicsPipeline
\* destroys as soon as the pipeline is built
Retains_Modules(o) == Reads(o)

Retains(o) == Reads(o) \ {ShaderModules[j] : j \in DOMAIN ShaderModules}

\* the command buffers are never freed by a call of their own: destroying
\* the command pool frees them
FreedWith(o) ==
    IF o.kind = "commandBuffers" THEN {o, Obj("commandPool", None)} ELSE {o}

\* one entry of ran
Ran(step, ok) == [step |-> step, ok |-> ok]
AllRan == [i \in DOMAIN InitVulkanSteps |-> Ran(InitVulkanSteps[i], TRUE)]

\* the test a builder makes on the result of its n-th create call, of which
\* the first `done` succeeded
BuilderThrows_SwapChainUnchecked(step, done) ==
    step # "CreateSwapChain" /\ done < Len(MadeBy(step))

BuilderThrows(step, done) == done < Len(MadeBy(step))

\* the tests RecordCommandBuffer makes on vkBeginCommandBuffer and
\* vkEndCommandBuffer
RecordThrows_EndUnchecked(res) == res = "BEGIN_FAILED"

RecordThrows(res) == res # "VK_SUCCESS"

\* what vkDeviceWaitIdle waits for
DeviceIdle_NoWait == TRUE

DeviceIdle == graphicsQueue = <<>> /\ presentQueue = <<>>

\* ------------------------------------------ physical devices (inputs)
QueueFamilies == [graphics : BOOLEAN, present : BOOLEAN]

RECURSIVE SeqsUpTo(_, _)
SeqsUpTo(S, n) ==
    IF n = 0 THEN {<<>>}
    ELSE SeqsUpTo(S, n - 1) \cup
         {Append(q, x) : q \in {r \in SeqsUpTo(S, n - 1) : Len(r) = n - 1}, x \in S}

PhysicalDevices ==
    [families : SeqsUpTo(QueueFamilies, MaxFamilies),
     extensions : {{}, {"VK_KHR_swapchain"}},
     formatCount : 0 .. 1,
     presentModeCount : 0 .. 1]

deviceExtensions == {"VK_KHR_swapchain"}

NoIndicies == [graphicsFamily |-> None, presentFamily |-> None]

IsComplete(indicies) ==
    indicies.graphicsFamily # None /\ indicies.presentFamily # None

\* the loop of FindQueueFamilies from family i (counted from 1) on
RECURSIVE FindFrom(_, _, _)
FindFrom(families, i, indicies) ==
    IF i > Len(families) THEN indicies
    ELSE LET found ==
                [presentFamily  |-> IF families[i].present THEN i - 1
                                    ELSE indicies.presentFamily,
                 graphicsFamily |-> IF families[i].graphics THEN i - 1
                                    ELSE indicies.graphicsFamily]
         IN  IF IsComplete(found) THEN found
             ELSE FindFrom(families, i + 1, found)

FindQueueFamilies(device) == FindFrom(device.families, 1, NoIndicies)

CheckDeviceExtensionSupport(device) == deviceExtensions \ device.extensions = {}

IsDeviceSuitable_AnyOf(device) ==
    \/ IsComplete(FindQueueFamilies(device))
    \/ CheckDeviceExtensionSupport(device)

IsDeviceSuitable(device) ==
    LET extensionsSupported == CheckDeviceExtensionSupport(device)
        swapChainAdequate ==
            IF extensionsSupported
                THEN device.formatCount # 0 /\ device.presentModeCount # 0
                ELSE FALSE
    IN  /\ IsComplete(FindQueueFamilies(device))
        /\ extensionsSupported
        /\ swapChainAdequate

\* a device that offers all that a swap chain needs
Offers(device) ==
    /\ "VK_KHR_swapchain" \in device.extensions
    /\ \E i \in DOMAIN device.families : device.families[i].graphics
    /\ \E i \in DOMAIN device.families : device.families[i].present
    /\ device.formatCount > 0
    /\ device.presentModeCount > 0

\* the local vector of PickPhysicalDevice: its size, the position of the
\* loop, the answers of the device the loop looked at last, and whether any
\* device looked at so far offers all that a swap chain needs
NoDevices == [count |-> 0, next |-> 0, seen |-> None, offered |-> FALSE]

\* ------------------------------------------------ swap-chain negotiation
U32(hi, lo) == [hi |-> hi, lo |-> lo]
Zero == U32(0, 0)
UINT32_MAX == U32(Half - 1, Half - 1)

\* uint32_t + 1
Add1(u) ==
    IF u.lo + 1 < Half THEN U32(u.hi, u.lo + 1)
                       ELSE U32((u.hi + 1) % Half, 0)

\* a > b
Gt(a, b) == a.hi > b.hi \/ (a.hi = b.hi /\ a.lo > b.lo)

\* the values of minImageCount and maxImageCount tried
U32Samples ==
    {U32(0, n) : n \in 0 .. MaxCount}
    \cup {U32(0, Half - 1), U32(1, 0), U32(Half - 1, Half - 2), UINT32_MAX}

SurfaceFormats ==
    [format : {"VK_FORMAT_B8G8R8A8_SRGB", "VK_FORMAT_R8G8B8A8_UNORM"},
     colorSpace : {"VK_COLOR_SPACE_SRGB_NONLINEAR_KHR",
                   "VK_COLOR_SPACE_DISPLAY_P3_NONLINEAR_EXT"}]

PresentModes == {"VK_PRESENT_MODE_IMMEDIATE_KHR", "VK_PRESENT_MODE_MAILBOX_KHR",
                 "VK_PRESENT_MODE_FIFO_KHR"}

Extent(w, h) == [width |-> w, height |-> h]

\* the window is created WIDTH by HEIGHT
WindowExtent == Extent(U32(0, WIDTH), U32(0, HEIGHT))
WindowSize == [width |-> WIDTH, height |-> HEIGHT]

\* the widths and heights tried
ExtentSamples == {U32(0, n) : n \in 0 .. MaxExtent} \cup {UINT32_MAX}
Extents == [width : ExtentSamples, height : ExtentSamples]

\* a surface whose size is that of the window, with one image at least and
\* no upper limit
WindowCapabilities ==
    [minImageCount |-> U32(0, 1), maxImageCount |-> Zero,
     currentExtent |-> WindowExtent, minImageExtent |-> WindowExtent,
     maxImageExtent |-> WindowExtent]

PreferredFormat == [format |-> "VK_FORMAT_B8G8R8A8_SRGB",
                    colorSpace |-> "VK_COLOR_SPACE_SRGB_NONLINEAR_KHR"]

WindowSupport == [capabilities |-> WindowCapabilities,
                  formats |-> <<PreferredFormat>>,
                  presentModes |-> <<"VK_PRESENT_MODE_FIFO_KHR">>]

\* what QuerySwapChainSupport can return: every image count and list
SwapChainSupportDetails ==
    {[WindowSupport EXCEPT !.capabilities.minImageCount = lo,
                           !.capabilities.maxImageCount = hi] :
        lo \in U32Samples, hi \in U32Samples}
    \cup {[WindowSupport EXCEPT !.formats = fs, !.presentModes = ms] :
            fs \in SeqsUpTo(SurfaceFormats, MaxListLen),
            ms \in SeqsUpTo(PresentModes, MaxListLen)}

\* the least and the greatest extent of a surface: the least is no larger
\* than the greatest
ExtentRanges ==
    {r \in [least : Extents, greatest : Extents] :
        /\ ~Gt(r.least.width, r.greatest.width)
        /\ ~Gt(r.least.height, r.greatest.height)}

\* what QuerySwapChainSupport can return: every extent
ExtentSupportDetails ==
    {[WindowSupport EXCEPT !.capabilities.currentExtent = cur,
                           !.capabilities.minImageExtent = r.least,
                           !.capabilities.maxImageExtent = r.greatest] :
        cur \in Extents, r \in ExtentRanges}

\* the sizes glfwGetFramebufferSize gives
FramebufferSizes ==
    [width : 0 .. MaxExtent + 1, height : 0 .. MaxExtent + 1] \cup {WindowSize}

\* the families of a device PickPhysicalDevice can have picked
SuitableFamilies ==
    {fs \in SeqsUpTo(QueueFamilies, MaxFamilies) :
        IsComplete(FindFrom(fs, 1, NoIndicies))}
WindowFamilies == <<[graphics |-> TRUE, present |-> TRUE]>>

\* static_cast<uint32_t> of an int that is not negative
ToU32(n) == U32(n \div Half, n % Half)

\* std::clamp
Clamp(v, lo, hi) == IF Gt(lo, v) THEN lo ELSE IF Gt(v, hi) THEN hi ELSE v

ChooseSwapExtentResult(capabilities, size) ==
    IF capabilities.currentExtent.width # UINT32_MAX
        THEN capabilities.currentExtent
        ELSE Extent(Clamp(ToU32(size.width),
                          capabilities.minImageExtent.width,
                          capabilities.maxImageExtent.width),
                    Clamp(ToU32(size.height),
                          capabilities.minImageExtent.height,
                          capabilities.maxImageExtent.height))

\* the queue entries CreateLogicalDevice puts in the device creation request:
\* one per member of the set uniqueQueueFamilies, each with the family index
\* indices.graphicsFamily
DeviceQueueCreateInfos(indices) ==
    LET uniqueQueueFamilies == {indices.graphicsFamily, indices.presentFamily}
    IN  [n \in 1 .. Cardinality(uniqueQueueFamilies) |->
            [queueFamilyIndex |-> indices.graphicsFamily,
             queueCount |-> 1]]

\* the request CreateImageViews makes for image i
ImageViewCreateInfo(i) ==
    [image |-> i, format |-> swapChainMembers.swapChainImageFormat]

\* the request CreateFrameBuffers makes for view i
FramebufferCreateInfo_FirstView(i) ==
    [attachments |-> <<0>>,
     width |-> swapChainMembers.swapChainExtent.width,
     height |-> swapChainMembers.swapChainExtent.height,
     layers |-> 1]

FramebufferCreateInfo(i) ==
    [attachments |-> <<i>>,
     width |-> swapChainMembers.swapChainExtent.width,
     height |-> swapChainMembers.swapChainExtent.height,
     layers |-> 1]

\* the members of the application object the swap chain builders fill
NoMembers == [swapChainImageFormat |-> None,
              swapChainExtent |-> None,
              swapChainImageViews |-> <<>>,
              swapChainFramebuffers |-> <<>>]

\* imageSharingMode, queueFamilyIndexCount and pQueueFamilyIndices
SharingMode_Exclusive(indices) ==
    [imageSharingMode |-> "VK_SHARING_MODE_EXCLUSIVE",
     queueFamilyIndexCount |-> 0,
     pQueueFamilyIndices |-> <<>>]

SharingMode(indices) ==
    IF indices.graphicsFamily # indices.presentFamily
        THEN [imageSharingMode |-> "VK_SHARING_MODE_CONCURRENT",
              queueFamilyIndexCount |-> 2,
              pQueueFamilyIndices |-> <<indices.graphicsFamily,
                                        indices.presentFamily>>]
        ELSE [imageSharingMode |-> "VK_SHARING_MODE_EXCLUSIVE",
              queueFamilyIndexCount |-> 0,
              pQueueFamilyIndices |-> <<>>]

\* what a read of element 0 of an empty vector can give
Indeterminate == [format |-> "indeterminate", colorSpace |-> "indeterminate"]

IsPreferredFormat(f) ==
    /\ f.format = "VK_FORMAT_B8G8R8A8_SRGB"
    /\ f.colorSpace = "VK_COLOR_SPACE_SRGB_NONLINEAR_KHR"

\* the position at which a range-for loop leaves at its first hit; 0 when
\* the loop runs to its end
FirstOf(hits) ==
    IF hits = {} THEN 0 ELSE CHOOSE i \in hits : \A j \in hits : i <= j

ChooseSwapSurfaceFormatResults_FirstEntry(availableFormats) ==
    IF availableFormats # <<>> THEN {availableFormats[1]}
    ELSE SurfaceFormats \cup {Indeterminate}

\* the values ChooseSwapSurfaceFormat can return
ChooseSwapSurfaceFormatResults(availableFormats) ==
    LET n == FirstOf({i \in DOMAIN availableFormats :
                        IsPreferredFormat(availableFormats[i])}) IN
    IF n # 0 THEN {availableFormats[n]}
    ELSE IF availableFormats # <<>> THEN {availableFormats[1]}
    ELSE SurfaceFormats \cup {Indeterminate}

IsMailbox(m) == m = "VK_PRESENT_MODE_MAILBOX_KHR"

ChooseSwapPresentModeResult_FirstOffered(avaliablePresentModes) ==
    IF avaliablePresentModes # <<>> THEN avaliablePresentModes[1]
    ELSE "VK_PRESENT_MODE_FIFO_KHR"

ChooseSwapPresentModeResult(avaliablePresentModes) ==
    LET n == FirstOf({i \in DOMAIN avaliablePresentModes :
                        IsMailbox(avaliablePresentModes[i])}) IN
    IF n # 0 THEN avaliablePresentModes[n] ELSE "VK_PRESENT_MODE_FIFO_KHR"

\* imageCount of CreateSwapChain
ImageCount(capabilities) ==
    LET imageCount == Add1(capabilities.minImageCount) IN
    IF Gt(capabilities.maxImageCount, Zero)
         /\ Gt(imageCount, capabilities.maxImageCount)
        THEN capabilities.maxImageCount
        ELSE imageCount

\* ---------------------------------------------------------------- Init
\* state when InitVulkan has returned and MainLoop is entered
Init ==
    /\ pc = "loop"
    /\ shouldClose = FALSE
    /\ currentFrame = 0
    /\ imageIndex = None
    /\ inFlightFences = [k \in Slots |-> TRUE]
    /\ imageAvailableSemaphores = [k \in Slots |-> FALSE]
    /\ renderFinishedSemaphores = [k \in Slots |-> FALSE]
    /\ commandBuffers = [k \in Slots |-> [state |-> "initial", fb |-> None, cmds |-> <<>>]]
    /\ pendingAcquire = {}
    /\ images = [i \in Images |-> "free"]
    /\ graphicsQueue = <<>>
    /\ presentQueue = <<>>
    /\ exitCode = None
    /\ frames = 0
    /\ framesDone = 0
    /\ iterSlot = 0
    /\ ops = <<>>
    /\ frameCap = MaxFrames
    /\ window = "open"
    /\ ran = AllRan
    /\ created = AllCreated
    /\ destroyed = ShaderModules
    /\ devices = NoDevices
    /\ physicalDevice = PickedHandle
    /\ support = None
    /\ createInfo = None
    /\ framebufferSize = None
    /\ queueFamilies = None
    /\ queueCreateInfos = None
    /\ swapChainMembers = None

\* an exception leaves DrawFrame, MainLoop and Run and is caught in main
Throw_ExitSuccess ==
    /\ pc' = "failed"
    /\ exitCode' = EXIT_SUCCESS

Throw ==
    /\ pc' = "failed"
    /\ exitCode' = EXIT_FAILURE

\* ------------------------------------------------------------ bring-up
InitWindow ==
    /\ pc = "InitWindow"
    /\ window' = "open"
    /\ pc' = InitVulkanSteps[1]
    /\ UNCHANGED <<exitCode, loopVars, negVars, frameCap, ran, created,
                   destroyed, devices, physicalDevice>>

\* a step of InitVulkan that makes its create calls in order and throws at
\* the first that fails
Build(step) ==
    /\ pc = step
    /\ \E done \in 0 .. Len(MadeBy(step)) :
          /\ created' = created \o SubSeq(MadeBy(step), 1, done)
          /\ ran' = Append(ran, Ran(step, done = Len(MadeBy(step))))
          /\ IF BuilderThrows(step, done)
                THEN Throw
                ELSE /\ pc' = StepAfter(step)
                     /\ UNCHANGED exitCode
    /\ UNCHANGED <<frameCap, window, devices, physicalDevice, negVars>>

CreateInstance ==
    /\ Build("CreateInstance")
    /\ UNCHANGED <<loopVars, destroyed>>

SetupDebugMessenger ==
    /\ Build("SetupDebugMessenger")
    /\ UNCHANGED <<loopVars, destroyed>>

CreateSurface ==
    /\ Build("CreateSurface")
    /\ UNCHANGED <<loopVars, destroyed>>

\* vkEnumeratePhysicalDevices gives the number of devices; none is an error
EnumeratePhysicalDevices ==
    /\ pc = "PickPhysicalDevice"
    /\ \E deviceCount \in 0 .. MaxDevices :
          /\ devices' = [NoDevices EXCEPT !.count = deviceCount]
          /\ IF deviceCount = 0
                THEN /\ Throw
                     /\ ran' = Append(ran, Ran("PickPhysicalDevice", FALSE))
                ELSE /\ pc' = "PickPhysicalDevice.for"
                     /\ UNCHANGED <<exitCode, ran>>
    /\ UNCHANGED <<loopVars, negVars, frameCap, window, created, destroyed,
                   physicalDevice>>

\* one turn of the loop over the devices: IsDeviceSuitable queries the
\* device, and the first suitable device ends the loop
VisitPhysicalDevice ==
    /\ pc = "PickPhysicalDevice.for"
    /\ \E device \in PhysicalDevices :
          /\ devices' = [devices EXCEPT !.next = @ + 1,
                                        !.seen = device,
                                        !.offered = @ \/ Offers(device)]
          /\ physicalDevice' = IF IsDeviceSuitable(device) THEN PickedHandle
                                                           ELSE physicalDevice
          /\ pc' = IF IsDeviceSuitable(device) \/ devices.next + 1 = devices.count
                      THEN "PickPhysicalDevice.if"
                      ELSE "PickPhysicalDevice.for"
    /\ UNCHANGED <<exitCode, loopVars, negVars, frameCap, window, ran, created,
                   destroyed>>

\* the test after the loop
PickPhysicalDevice ==
    /\ pc = "PickPhysicalDevice.if"
    /\ IF physicalDevice = NullHandle
          THEN /\ Throw
               /\ ran' = Append(ran, Ran("PickPhysicalDevice", FALSE))
               /\ UNCHANGED devices
          ELSE /\ devices' = NoDevices
               /\ ran' = Append(ran, Ran("PickPhysicalDevice", TRUE))
               /\ pc' = StepAfter("PickPhysicalDevice")
               /\ UNCHANGED exitCode
    /\ UNCHANGED <<loopVars, negVars, frameCap, window, created, destroyed,
                   physicalDevice>>

CreateLogicalDevice ==
    /\ Build("CreateLogicalDevice")
    /\ UNCHANGED <<loopVars, destroyed>>

\* once the chain is created, vkGetSwapchainImagesKHR gives the number of
\* images it holds and then the images
CreateSwapChain ==
    /\ Build("CreateSwapChain")
    /\ IF pc' = "failed"
          THEN UNCHANGED images
          ELSE images' \in SwapChainImages
    /\ UNCHANGED <<shouldClose, currentFrame, imageIndex, inFlightFences,
                   imageAvailableSemaphores, renderFinishedSemaphores,
                   commandBuffers, pendingAcquire, graphicsQueue,
                   presentQueue, frames, framesDone, iterSlot, ops, destroyed>>

CreateImageViews ==
    /\ Build("CreateImageViews")
    /\ UNCHANGED <<loopVars, destroyed>>

CreateRenderPass ==
    /\ Build("CreateRenderPass")
    /\ UNCHANGED <<loopVars, destroyed>>

\* the shader modules are destroyed once the pipeline is created
CreateGraphicsPipeline ==
    /\ Build("CreateGraphicsPipeline")
    /\ destroyed' = IF pc' = "failed" THEN destroyed
                                      ELSE destroyed \o ShaderModules
    /\ UNCHANGED loopVars

CreateFrameBuffers ==
    /\ Build("CreateFrameBuffers")
    /\ UNCHANGED <<loopVars, destroyed>>

CreateCommandPool ==
    /\ Build("CreateCommandPool")
    /\ UNCHANGED <<loopVars, destroyed>>

CreateCommandBuffers ==
    /\ Build("CreateCommandBuffers")
    /\ UNCHANGED <<loopVars, destroyed>>

\* a fence is created signaled
CreateSyncObjects ==
    /\ Build("CreateSyncObjects")
    /\ inFlightFences' =
          [k \in Slots |-> Obj("inFlightFence", k) \in
                              {created'[j] : j \in DOMAIN created'}]
    /\ UNCHANGED <<shouldClose, currentFrame, imageIndex,
                   imageAvailableSemaphores, renderFinishedSemaphores,
                   commandBuffers, pendingAcquire, images, graphicsQueue,
                   presentQueue, frames, framesDone, iterSlot, ops, destroyed>>

InitVulkan ==
    \/ CreateInstance
    \/ SetupDebugMessenger
    \/ CreateSurface
    \/ EnumeratePhysicalDevices
    \/ VisitPhysicalDevice
    \/ PickPhysicalDevice
    \/ CreateLogicalDevice
    \/ CreateSwapChain
    \/ CreateImageViews
    \/ CreateRenderPass
    \/ CreateGraphicsPipeline
    \/ CreateFrameBuffers
    \/ CreateCommandPool
    \/ CreateCommandBuffers
    \/ CreateSyncObjects

\* ------------------------------------------------------------ MainLoop
\* while (!glfwWindowShouldClose(window)) { glfwPollEvents(); DrawFrame(); }
MainLoopIterate ==
    /\ pc = "loop"
    /\ ~shouldClose
    /\ frames < frameCap
    /\ \E close \in (IF frames + 1 >= frameCap THEN {TRUE} ELSE BOOLEAN) :
          shouldClose' = close
    /\ pc' = "wait"
    /\ frames' = frames + 1
    /\ iterSlot' = currentFrame
    /\ imageIndex' = None
    /\ ops' = <<>>
    /\ UNCHANGED <<currentFrame, inFlightFences, imageAvailableSemaphores,
                   renderFinishedSemaphores, commandBuffers, pendingAcquire,
                   images, graphicsQueue, presentQueue, exitCode, framesDone>>
    /\ UNCHANGED <<runVars, negVars>>

MainLoopExit ==
    /\ pc = "loop"
    /\ shouldClose
    /\ pc' = "idle"
    /\ UNCHANGED <<shouldClose, currentFrame, imageIndex, inFlightFences,
                   imageAvailableSemaphores, renderFinishedSemaphores,
                   commandBuffers, pendingAcquire, images, graphicsQueue,
                   presentQueue, exitCode, frames, framesDone, iterSlot, ops>>
    /\ UNCHANGED <<runVars, negVars>>

\* ----------------------------------------------------------- DrawFrame
WaitForFences ==
    /\ pc = "wait"
    /\ CallReturns("wait")
    /\ pc' = NextStep("wait")
    /\ ops' = Append(ops, Call("wait", currentFrame, None, None, None,
                               "VK_SUCCESS", None))
    /\ UNCHANGED <<shouldClose, currentFrame, imageIndex, inFlightFences,
                   imageAvailableSemaphores, renderFinishedSemaphores,
                   commandBuffers, pendingAcquire, images, graphicsQueue,
                   presentQueue, exitCode, frames, framesDone, iterSlot>>
    /\ UNCHANGED <<runVars, negVars>>

ResetFences ==
    /\ pc = "reset"
    /\ CallReturns("reset")
    /\ inFlightFences' = [inFlightFences EXCEPT ![currentFrame] = FALSE]
    /\ pc' = NextStep("reset")
    /\ ops' = Append(ops, Call("reset", currentFrame, None, None, None,
                               "VK_SUCCESS", None))
    /\ UNCHANGED <<shouldClose, currentFrame, imageIndex,
                   imageAvailableSemaphores, renderFinishedSemaphores,
                   commandBuffers, pendingAcquire, images, graphicsQueue,
                   presentQueue, exitCode, frames, framesDone, iterSlot>>
    /\ UNCHANGED <<runVars, negVars>>

\* vkAcquireNextImageKHR returns an image: it blocks until one is free
AcquireNextImage ==
    /\ pc = "acquire"
    /\ CallReturns("acquire")
    /\ \E i \in DOMAIN images :
          /\ images[i] = "free"
          /\ images' = [images EXCEPT ![i] = "acquired"]
          /\ imageIndex' = i
          /\ ops' = Append(ops, Call("acquire", None, None, currentFrame, None,
                                     "VK_SUCCESS", i))
    /\ pendingAcquire' = pendingAcquire \cup {currentFrame}
    /\ pc' = NextStep("acquire")
    /\ UNCHANGED <<shouldClose, currentFrame, inFlightFences,
                   imageAvailableSemaphores, renderFinishedSemaphores,
                   commandBuffers, graphicsQueue, presentQueue, exitCode,
                   frames, framesDone, iterSlot>>
    /\ UNCHANGED <<runVars, negVars>>

\* vkAcquireNextImageKHR reports an error: nothing is acquired, no signal is
\* placed on the semaphore, imageIndex keeps its indeterminate value (any
\* index, NumImages standing for the values outside the chain); the result is
\* not looked at
AcquireNextImageError ==
    /\ pc = "acquire"
    /\ \E garbage \in 0 .. NumImages :
          /\ imageIndex' = garbage
          /\ ops' = Append(ops, Call("acquire", None, None, currentFrame, None,
                                     "VK_ERROR_OUT_OF_DATE_KHR", None))
    /\ pc' = NextStep("acquire")
    /\ UNCHANGED <<shouldClose, currentFrame, inFlightFences,
                   imageAvailableSemaphores, renderFinishedSemaphores,
                   commandBuffers, pendingAcquire, images, graphicsQueue,
                   presentQueue, exitCode, frames, framesDone, iterSlot>>
    /\ UNCHANGED <<runVars, negVars>>

ResetCommandBuffer ==
    /\ pc = "resetcb"
    /\ CallReturns("resetcb")
    /\ commandBuffers' = [commandBuffers EXCEPT
                            ![currentFrame] = [state |-> "initial", fb |-> None, cmds |-> <<>>]]
    /\ pc' = NextStep("resetcb")
    /\ ops' = Append(ops, Call("resetcb", None, None, None, currentFrame,
                               "VK_SUCCESS", None))
    /\ UNCHANGED <<shouldClose, currentFrame, imageIndex, inFlightFences,
                   imageAvailableSemaphores, renderFinishedSemaphores,
                   pendingAcquire, images, graphicsQueue, presentQueue,
                   exitCode, frames, framesDone, iterSlot>>
    /\ UNCHANGED <<runVars, negVars>>

\* a call made on a command buffer
Cmd(name, framebuffer, vertexCount, instanceCount) ==
    [cmd |-> name, framebuffer |-> framebuffer, vertexCount |-> vertexCount,
     instanceCount |-> instanceCount]

\* the calls RecordCommandBuffer makes on the command buffer once
\* vkBeginCommandBuffer has succeeded
RecordedCommands(index, res) ==
    <<Cmd("vkBeginCommandBuffer", None, None, None),
      Cmd("vkCmdBeginRenderPass", index, None, None),
      Cmd("vkCmdBindPipeline", None, None, None),
      Cmd("vkCmdSetViewport", None, None, None),
      Cmd("vkCmdSetScissor", None, None, None),
      Cmd("vkCmdDraw", None, 3, 1),
      Cmd("vkCmdEndRenderPass", None, None, None)>>
    \o (IF res = "END_FAILED"
           THEN <<>>
           ELSE <<Cmd("vkEndCommandBuffer", None, None, None)>>)

\* RecordCommandBuffer(commandBuffers[currentFrame], imageIndex): the render
\* pass is begun on swapChainFramebuffers[imageIndex] once begin succeeded
RecordCommandBuffer ==
    /\ pc = "record"
    /\ CallReturns("record")
    /\ \E res \in RecordResults :
          /\ ops' = Append(ops, Call("record", None, None, None, currentFrame,
                                     res,
                                     IF res = "BEGIN_FAILED" THEN None
                                                             ELSE imageIndex))
          /\ commandBuffers' =
                IF res = "BEGIN_FAILED" THEN commandBuffers
                ELSE [commandBuffers EXCEPT
                        ![currentFrame] =
                            [state |-> IF res = "END_FAILED" THEN "invalid"
                                                             ELSE "executable",
                             fb |-> imageIndex,
                             cmds |-> RecordedCommands(imageIndex, res)]]
          /\ IF RecordThrows(res)
                THEN Throw
                ELSE /\ pc' = NextStep("record")
                     /\ UNCHANGED exitCode
    /\ UNCHANGED <<shouldClose, currentFrame, imageIndex, inFlightFences,
                   imageAvailableSemaphores, renderFinishedSemaphores,
                   pendingAcquire, images, graphicsQueue, presentQueue,
                   frames, framesDone, iterSlot>>
    /\ UNCHANGED <<runVars, negVars>>

QueueSubmit ==
    /\ pc = "submit"
    /\ CallReturns("submit")
    /\ \E res \in SubmitResults :
          /\ ops' = Append(ops, Call("submit", currentFrame, waitSemaphores,
                                     signalSemaphores, currentFrame, res, None))
          /\ IF res = "VK_SUCCESS"
                THEN /\ graphicsQueue' = Append(graphicsQueue,
                            [wait |-> waitSemaphores,
                             signal |-> signalSemaphores,
                             fence |-> currentFrame,
                             cb |-> currentFrame,
                             frame |-> frames])
                     /\ commandBuffers' = [commandBuffers EXCEPT
                            ![currentFrame].state = "pending"]
                ELSE UNCHANGED <<graphicsQueue, commandBuffers>>
          /\ IF SubmitFailed(res)
                THEN Throw
                ELSE /\ pc' = NextStep("submit")
                     /\ UNCHANGED exitCode
    /\ UNCHANGED <<shouldClose, currentFrame, imageIndex, inFlightFences,
                   imageAvailableSemaphores, renderFinishedSemaphores,
                   pendingAcquire, images, presentQueue, frames, framesDone,
                   iterSlot>>
    /\ UNCHANGED <<runVars, negVars>>

\* vkQueuePresentKHR; its result is not looked at
QueuePresent ==
    /\ pc = "present"
    /\ CallReturns("present")
    /\ \E res \in PresentResults :
          /\ ops' = Append(ops, Call("present", None, signalSemaphores, None,
                                     None, res, imageIndex))
          /\ IF res = "VK_ERROR_OUT_OF_HOST_MEMORY"
                THEN UNCHANGED presentQueue
                ELSE presentQueue' = Append(presentQueue,
                            [wait |-> signalSemaphores, image |-> imageIndex,
                             frame |-> frames])
    /\ pc' = NextStep("present")
    /\ UNCHANGED <<shouldClose, currentFrame, imageIndex, inFlightFences,
                   imageAvailableSemaphores, renderFinishedSemaphores,
                   commandBuffers, pendingAcquire, images, graphicsQueue,
                   exitCode, frames, framesDone, iterSlot>>
    /\ UNCHANGED <<runVars, negVars>>

AdvanceFrame ==
    /\ pc = "advance"
    /\ currentFrame' = NextFrame(currentFrame)
    /\ pc' = NextStep("advance")
    /\ framesDone' = framesDone + 1
    /\ ops' = Append(ops, Call("advance", None, None, None, None,
                               "VK_SUCCESS", None))
    /\ UNCHANGED <<shouldClose, imageIndex, inFlightFences,
                   imageAvailableSemaphores, renderFinishedSemaphores,
                   commandBuffers, pendingAcquire, images, graphicsQueue,
                   presentQueue, exitCode, frames, iterSlot>>
    /\ UNCHANGED <<runVars, negVars>>

\* ------------------------------------------------------------ shutdown
\* vkDeviceWaitIdle(device) at the end of MainLoop
DeviceWaitIdle ==
    /\ pc = "idle"
    /\ DeviceIdle
    /\ pc' = "cleanup"
    /\ UNCHANGED <<shouldClose, currentFrame, imageIndex, inFlightFences,
                   imageAvailableSemaphores, renderFinishedSemaphores,
                   commandBuffers, pendingAcquire, images, graphicsQueue,
                   presentQueue, exitCode, frames, framesDone, iterSlot, ops>>
    /\ UNCHANGED <<runVars, negVars>>

\* Cleanup() and the return of main
Cleanup ==
    /\ pc = "cleanup"
    /\ destroyed' = destroyed \o CleanupCalls
    /\ window' = "destroyed"
    /\ pc' = "done"
    /\ exitCode' = EXIT_SUCCESS
    /\ UNCHANGED <<shouldClose, currentFrame, imageIndex, inFlightFences,
                   imageAvailableSemaphores, renderFinishedSemaphores,
                   commandBuffers, pendingAcquire, images, graphicsQueue,
                   presentQueue, frames, framesDone, iterSlot, ops>>
    /\ UNCHANGED <<frameCap, ran, created, devices, physicalDevice, negVars>>

\* ------------------------------------- GPU and presentation engine steps
Running == pc \notin {"failed", "cleanup", "done"}

\* the presentation engine signals the semaphore given to an acquire
SignalImageAvailable ==
    /\ Running
    /\ \E k \in pendingAcquire :
          /\ pendingAcquire' = pendingAcquire \ {k}
          /\ imageAvailableSemaphores' =
                 [imageAvailableSemaphores EXCEPT ![k] = TRUE]
    /\ UNCHANGED <<inFlightFences, renderFinishedSemaphores, commandBuffers,
                   images, graphicsQueue, presentQueue>>
    /\ UNCHANGED cpuVars
    /\ UNCHANGED <<runVars, negVars>>

\* the graphics queue executes a submission: it consumes the wait semaphore,
\* runs the command buffer, signals the signal semaphore and the fence
GpuExecute ==
    /\ Running
    /\ \E n \in 1 .. Len(graphicsQueue) :
          LET s == graphicsQueue[n] IN
          /\ imageAvailableSemaphores[s.wait]
          /\ imageAvailableSemaphores' =
                 [imageAvailableSemaphores EXCEPT ![s.wait] = FALSE]
          /\ renderFinishedSemaphores' =
                 [renderFinishedSemaphores EXCEPT ![s.signal] = TRUE]
          /\ inFlightFences' = [inFlightFences EXCEPT ![s.fence] = TRUE]
          /\ commandBuffers' = [commandBuffers EXCEPT
                 ![s.cb].state = IF @ = "pending" THEN "executable" ELSE @]
          /\ graphicsQueue' = RemoveAt(graphicsQueue, n)
    /\ UNCHANGED <<pendingAcquire, images, presentQueue>>
    /\ UNCHANGED cpuVars
    /\ UNCHANGED <<runVars, negVars>>

\* the present queue executes a present request: it consumes the wait
\* semaphore and hands the image to the presentation engine
PresentExecute ==
    /\ Running
    /\ \E n \in 1 .. Len(presentQueue) :
          LET p == presentQueue[n] IN
          /\ renderFinishedSemaphores[p.wait]
          /\ renderFinishedSemaphores' =
                 [renderFinishedSemaphores EXCEPT ![p.wait] = FALSE]
          /\ images' = IF p.image \in DOMAIN images /\ images[p.image] = "acquired"
                          THEN [images EXCEPT ![p.image] = "presented"]
                          ELSE images
          /\ presentQueue' = RemoveAt(presentQueue, n)
    /\ UNCHANGED <<inFlightFences, imageAvailableSemaphores, commandBuffers,
                   pendingAcquire, graphicsQueue>>
    /\ UNCHANGED cpuVars
    /\ UNCHANGED <<runVars, negVars>>

\* the presentation engine is done with a presented image
ReleaseImage ==
    /\ Running
    /\ \E i \in DOMAIN images :
          /\ images[i] = "presented"
          /\ images' = [images EXCEPT ![i] = "free"]
    /\ UNCHANGED <<inFlightFences, imageAvailableSemaphores,
                   renderFinishedSemaphores, commandBuffers, pendingAcquire,
                   graphicsQueue, presentQueue>>
    /\ UNCHANGED cpuVars
    /\ UNCHANGED <<runVars, negVars>>

DrawFrame ==
    \/ WaitForFences
    \/ ResetFences
    \/ AcquireNextImage
    \/ AcquireNextImageError
    \/ ResetCommandBuffer
    \/ RecordCommandBuffer
    \/ QueueSubmit
    \/ QueuePresent
    \/ AdvanceFrame

Next ==
    \/ MainLoopIterate
    \/ MainLoopExit
    \/ DrawFrame
    \/ DeviceWaitIdle
    \/ Cleanup
    \/ SignalImageAvailable
    \/ GpuExecute
    \/ PresentExecute
    \/ ReleaseImage

Spec == Init /\ [][Next]_vars

\* the whole program, from the first statement of Run
InitRun ==
    /\ pc = "InitWindow"
    /\ shouldClose = FALSE
    /\ currentFrame = 0
    /\ imageIndex = None
    /\ inFlightFences = [k \in Slots |-> FALSE]
    /\ imageAvailableSemaphores = [k \in Slots |-> FALSE]
    /\ renderFinishedSemaphores = [k \in Slots |-> FALSE]
    /\ commandBuffers = [k \in Slots |-> [state |-> "initial", fb |-> None, cmds |-> <<>>]]
    /\ pendingAcquire = {}
    /\ images = <<>>
    /\ graphicsQueue = <<>>
    /\ presentQueue = <<>>
    /\ exitCode = None
    /\ frames = 0
    /\ framesDone = 0
    /\ iterSlot = 0
    /\ ops = <<>>
    /\ frameCap = MaxRunFrames
    /\ window = "none"
    /\ ran = <<>>
    /\ created = <<>>
    /\ destroyed = <<>>
    /\ devices = NoDevices
    /\ physicalDevice = NullHandle
    /\ support = None
    /\ createInfo = None
    /\ framebufferSize = None
    /\ queueFamilies = None
    /\ queueCreateInfos = None
    /\ swapChainMembers = None

NextRun ==
    \/ InitWindow
    \/ InitVulkan
    \/ MainLoopIterate
    \/ MainLoopExit
    \/ DrawFrame
    \/ DeviceWaitIdle
    \/ Cleanup
    \/ SignalImageAvailable
    \/ GpuExecute
    \/ PresentExecute
    \/ ReleaseImage

SpecRun == InitRun /\ [][NextRun]_vars

\* the CPU thread goes on with its next statement whenever the call it is at
\* can return; no error result is bound to happen
CpuFairness ==
    /\ WF_vars(MainLoopIterate)
    /\ WF_vars(MainLoopExit)
    /\ WF_vars(WaitForFences)
    /\ WF_vars(ResetFences)
    /\ WF_vars(AcquireNextImage)
    /\ WF_vars(ResetCommandBuffer)
    /\ WF_vars(RecordCommandBuffer)
    /\ WF_vars(QueueSubmit)
    /\ WF_vars(QueuePresent)
    /\ WF_vars(AdvanceFrame)
    /\ WF_vars(DeviceWaitIdle)
    /\ WF_vars(Cleanup)

\* the GPU executes a submission whose wait semaphore is signaled
GpuFairness == WF_vars(GpuExecute)

\* the presentation engine signals the semaphore of an acquire, takes a
\* present request whose wait semaphore is signaled and gives a presented
\* image back
PresentationFairness ==
    /\ WF_vars(SignalImageAvailable)
    /\ WF_vars(PresentExecute)
    /\ WF_vars(ReleaseImage)

\* the frame loop with a CPU thread, a GPU and a presentation engine that
\* keep going
SpecFair ==
    Init /\ [][Next]_vars /\ CpuFairness /\ GpuFairness /\ PresentationFairness

\* the whole program with the same
SpecRunFair ==
    /\ InitRun /\ [][NextRun]_vars
    /\ WF_vars(InitWindow) /\ WF_vars(InitVulkan)
    /\ CpuFairness /\ GpuFairness /\ PresentationFairness

\* the negotiation at the head of CreateSwapChain, on every answer of
\* QuerySwapChainSupport
InitSwapChain ==
    /\ pc = "CreateLogicalDevice"
    /\ shouldClose = FALSE
    /\ currentFrame = 0
    /\ imageIndex = None
    /\ inFlightFences = [k \in Slots |-> FALSE]
    /\ imageAvailableSemaphores = [k \in Slots |-> FALSE]
    /\ renderFinishedSemaphores = [k \in Slots |-> FALSE]
    /\ commandBuffers = [k \in Slots |-> [state |-> "initial", fb |-> None, cmds |-> <<>>]]
    /\ pendingAcquire = {}
    /\ images = <<>>
    /\ graphicsQueue = <<>>
    /\ presentQueue = <<>>
    /\ exitCode = None
    /\ frames = 0
    /\ framesDone = 0
    /\ iterSlot = 0
    /\ ops = <<>>
    /\ frameCap = MaxRunFrames
    /\ window = "open"
    /\ ran = SubSeq(AllRan, 1, StepIndex("CreateLogicalDevice") - 1)
    /\ created = Concat(SubSeq(InitVulkanSteps, 1, StepIndex("CreateLogicalDevice") - 1), 1)
    /\ destroyed = <<>>
    /\ devices = NoDevices
    /\ physicalDevice = PickedHandle
    /\ framebufferSize = None
    /\ queueCreateInfos = None
    /\ swapChainMembers = NoMembers
    /\ \/ /\ support \in SwapChainSupportDetails \cup ExtentSupportDetails
          /\ queueFamilies = WindowFamilies
       \/ /\ support = WindowSupport
          /\ queueFamilies \in SuitableFamilies
    /\ createInfo = [surfaceFormat |-> None, presentMode |-> None,
                     imageExtent |-> None, minImageCount |-> None,
                     sharing |-> None]

\* CreateLogicalDevice: the queue entries, then vkCreateDevice, which may
\* fail
LogicalDevice ==
    /\ pc = "CreateLogicalDevice"
    /\ queueCreateInfos' =
          DeviceQueueCreateInfos(FindFrom(queueFamilies, 1, NoIndicies))
    /\ \/ Throw
       \/ pc' = "ChooseSwapSurfaceFormat" /\ UNCHANGED exitCode
    /\ UNCHANGED <<support, createInfo, framebufferSize, queueFamilies,
                   swapChainMembers, loopVars, runVars>>

\* on an empty list the read of availableFormats[0] is undefined: it gives
\* some value, or the process is killed
ChooseSwapSurfaceFormat ==
    /\ pc = "ChooseSwapSurfaceFormat"
    /\ \/ /\ \E f \in ChooseSwapSurfaceFormatResults(support.formats) :
                createInfo' = [createInfo EXCEPT !.surfaceFormat = f]
          /\ pc' = "ChooseSwapPresentMode"
       \/ /\ support.formats = <<>>
          /\ pc' = "crashed"
          /\ UNCHANGED createInfo
    /\ UNCHANGED <<exitCode, support, framebufferSize, queueFamilies,
                   queueCreateInfos, swapChainMembers, loopVars, runVars>>

ChooseSwapPresentMode ==
    /\ pc = "ChooseSwapPresentMode"
    /\ createInfo' = [createInfo EXCEPT
            !.presentMode = ChooseSwapPresentModeResult(support.presentModes)]
    /\ pc' = "ChooseSwapExtent"
    /\ UNCHANGED <<exitCode, support, framebufferSize, queueFamilies,
                   queueCreateInfos, swapChainMembers, loopVars, runVars>>

\* glfwGetFramebufferSize is called in the branch of the special value only
ChooseSwapExtent ==
    /\ pc = "ChooseSwapExtent"
    /\ IF support.capabilities.currentExtent.width # UINT32_MAX
          THEN UNCHANGED framebufferSize
          ELSE framebufferSize' \in FramebufferSizes
    /\ createInfo' = [createInfo EXCEPT
            !.imageExtent = ChooseSwapExtentResult(support.capabilities,
                                                   framebufferSize')]
    /\ pc' = "imageCount"
    /\ UNCHANGED <<exitCode, support, queueFamilies, queueCreateInfos,
                   swapChainMembers, loopVars, runVars>>

\* the locals width and height of ChooseSwapExtent are gone once it has
\* returned
ChooseImageCount ==
    /\ pc = "imageCount"
    /\ createInfo' = [createInfo EXCEPT
            !.minImageCount = ImageCount(support.capabilities)]
    /\ pc' = "imageSharingMode"
    /\ framebufferSize' = None
    /\ UNCHANGED <<exitCode, support, queueFamilies, queueCreateInfos,
                   swapChainMembers, loopVars, runVars>>

\* FindQueueFamilies again, and the sharing mode from its answer
ChooseSharingMode ==
    /\ pc = "imageSharingMode"
    /\ createInfo' = [createInfo EXCEPT
            !.sharing = SharingMode(FindFrom(queueFamilies, 1, NoIndicies))]
    /\ pc' = "negotiated"
    /\ UNCHANGED <<exitCode, support, framebufferSize, queueFamilies,
                   queueCreateInfos, swapChainMembers, loopVars, runVars>>

\* the rest of CreateSwapChain: vkCreateSwapchainKHR, which may fail, then the
\* images of the chain, its format and its extent are stored
SwapchainKHR ==
    /\ pc = "negotiated"
    /\ \/ /\ Throw
          /\ UNCHANGED <<images, swapChainMembers>>
       \/ /\ images' \in SwapChainImages
          /\ swapChainMembers' =
                [swapChainMembers EXCEPT
                    !.swapChainImageFormat = createInfo.surfaceFormat.format,
                    !.swapChainExtent = createInfo.imageExtent]
          /\ pc' = "CreateImageViews"
          /\ UNCHANGED exitCode
    /\ UNCHANGED <<shouldClose, currentFrame, imageIndex, inFlightFences,
                   imageAvailableSemaphores, renderFinishedSemaphores,
                   commandBuffers, pendingAcquire, graphicsQueue,
                   presentQueue, frames, framesDone, iterSlot, ops>>
    /\ UNCHANGED <<support, createInfo, framebufferSize, queueFamilies,
                   queueCreateInfos, runVars>>

\* CreateImageViews: one view per image, in order; a failed vkCreateImageView
\* throws
ImageViews ==
    /\ pc = "CreateImageViews"
    /\ \E done \in 0 .. swapChainImagesSize :
          /\ swapChainMembers' =
                [swapChainMembers EXCEPT
                    !.swapChainImageViews =
                        [i \in 0 .. (done - 1) |-> ImageViewCreateInfo(i)]]
          /\ IF done < swapChainImagesSize
                THEN Throw
                ELSE pc' = "CreateFrameBuffers" /\ UNCHANGED exitCode
    /\ UNCHANGED <<support, createInfo, framebufferSize, queueFamilies,
                   queueCreateInfos, loopVars, runVars>>

\* CreateFrameBuffers (CreateRenderPass and CreateGraphicsPipeline, which
\* come before it, touch none of these members): one framebuffer per view,
\* in order; a failed vkCreateFramebuffer throws
FrameBuffers ==
    /\ pc = "CreateFrameBuffers"
    /\ \E done \in 0 .. Cardinality(DOMAIN swapChainMembers.swapChainImageViews) :
          /\ swapChainMembers' =
                [swapChainMembers EXCEPT
                    !.swapChainFramebuffers =
                        [i \in 0 .. (done - 1) |-> FramebufferCreateInfo(i)]]
          /\ IF done < Cardinality(DOMAIN swapChainMembers.swapChainImageViews)
                THEN Throw
                ELSE pc' = "built" /\ UNCHANGED exitCode
    /\ UNCHANGED <<support, createInfo, framebufferSize, queueFamilies,
                   queueCreateInfos, loopVars, runVars>>

NextSwapChain ==
    \/ LogicalDevice
    \/ ChooseSwapSurfaceFormat
    \/ ChooseSwapPresentMode
    \/ ChooseSwapExtent
    \/ ChooseImageCount
    \/ ChooseSharingMode
    \/ SwapchainKHR
    \/ ImageViews
    \/ FrameBuffers

SpecSwapChain == InitSwapChain /\ [][NextSwapChain]_vars

TypeOK ==
    /\ pc \in {"loop", "wait", "reset", "acquire", "resetcb", "record",
               "submit", "present", "advance", "idle", "cleanup", "done",
               "failed", "InitWindow", "PickPhysicalDevice.for", "PickPhysicalDevice.if",
               "ChooseSwapPresentMode", "ChooseSwapSurfaceFormat",
               "ChooseSwapExtent", "imageCount", "imageSharingMode",
               "negotiated", "built", "crashed"}
              \cup {InitVulkanSteps[i] : i \in DOMAIN InitVulkanSteps}
    /\ shouldClose \in BOOLEAN
    /\ imageIndex \in {None} \cup (0 .. NumImages)
    /\ inFlightFences \in [Slots -> BOOLEAN]
    /\ imageAvailableSemaphores \in [Slots -> BOOLEAN]
    /\ renderFinishedSemaphores \in [Slots -> BOOLEAN]
    /\ pendingAcquire \subseteq Slots
    /\ \E n \in 0 .. NumImages :
          images \in [0 .. (n - 1) -> {"free", "acquired", "presented"}]
    /\ exitCode \in {None, EXIT_SUCCESS, EXIT_FAILURE}
    /\ frames \in 0 .. frameCap
    /\ framesDone \in 0 .. frames
    /\ frameCap \in {MaxFrames, MaxRunFrames}
    /\ window \in {"none", "open", "destroyed"}
    /\ \A i \in DOMAIN ran : ran[i].step = InitVulkanSteps[i]
    /\ Len(created) <= Len(AllCreated)
    /\ devices.count \in 0 .. MaxDevices
    /\ devices.next \in 0 .. devices.count
    /\ physicalDevice \in {NullHandle, PickedHandle}

\* ------------------------------------------------ vocabulary of the claims
DrawFrameSteps == {"wait", "reset", "acquire", "resetcb", "record", "submit",
                   "present", "advance"}

\* the current DrawFrame invocation has returned or has thrown
IterationReturned == ops # <<>> /\ pc \in {"loop", "idle", "cleanup", "done"}
IterationEnded == ops # <<>> /\ pc \notin DrawFrameSteps

StepNames == [n \in DOMAIN ops |-> ops[n].op]
Canon == <<"wait", "reset", "acquire", "resetcb", "record", "submit",
           "present", "advance">>
IsPrefix(s, t) == Len(s) <= Len(t) /\ s = SubSeq(t, 1, Len(s))

\* calls of the current invocation, by position in ops
AcquiresOk == {n \in DOMAIN ops : ops[n].op = "acquire" /\ ops[n].res = "VK_SUCCESS"}
SubmitsOk == {n \in DOMAIN ops : ops[n].op = "submit" /\ ops[n].res = "VK_SUCCESS"}
SubmitsWaitingOn(k) == {n \in SubmitsOk : ops[n].wait = k}
PresentsWaitingOn(k) == {n \in DOMAIN ops : ops[n].op = "present" /\ ops[n].wait = k}
SlotsNamed(c) == {c.fence, c.wait, c.signal, c.cb} \ {None}
SubmissionsOf(k) == {n \in DOMAIN graphicsQueue : graphicsQueue[n].fence = k}

C3_FrameCursor ==
    /\ [](currentFrame \in Slots)
    /\ [][/\ framesDone' = framesDone + 1 =>
                currentFrame' = (currentFrame + 1) % MAX_FRAMES_IN_FLIGHT
          /\ framesDone' = framesDone => currentFrame' = currentFrame
          /\ frames' = frames + 1 => currentFrame = framesDone % MAX_FRAMES_IN_FLIGHT
         ]_vars

C3_Witness ==
    /\ framesDone >= 3
    /\ currentFrame = 1

\* every signal placed in the invocation has its one waiter
Paired ==
    /\ \A a \in AcquiresOk :
          /\ Cardinality(SubmitsWaitingOn(ops[a].signal)) = 1
          /\ \A n \in SubmitsWaitingOn(ops[a].signal) : n > a
    /\ \A n \in SubmitsOk :
          /\ Cardinality(PresentsWaitingOn(ops[n].signal)) = 1
          /\ \A m \in PresentsWaitingOn(ops[n].signal) : m > n

C5_Claim ==
    \A n \in DOMAIN ops :
        (ops[n].op = "record" /\ ops[n].idx # None) =>
            \E a \in AcquiresOk : a < n /\ ops[a].idx = ops[n].idx

\* C6 as stated: every invocation makes all the steps, in order, once each
C6_Claim == IterationEnded => StepNames = Canon

\* C6 amended: the steps of an invocation are made in the order wait, reset
\* fence, acquire, reset and record, submit, present, advance, none twice; an
\* invocation that returns has made them all, one that throws stopped in
\* record or submit; the next invocation starts after the advance
C6_StepOrder ==
    /\ [](/\ IsPrefix(StepNames, Canon)
          /\ IterationReturned => StepNames = Canon
          /\ pc \in DrawFrameSteps => /\ Len(ops) < Len(Canon)
                                      /\ pc = Canon[Len(ops) + 1]
          /\ pc = "failed" => ops[Len(ops)].op \in {"record", "submit"})
    /\ [][frames' = frames + 1 =>
             (ops = <<>> \/ ops[Len(ops)].op = "advance")]_vars

C6_Witness ==
    /\ pc = "wait"
    /\ framesDone >= 2

C8_OneSlotPerIteration ==
    /\ [](/\ \A n \in DOMAIN ops : SlotsNamed(ops[n]) \subseteq {iterSlot}
          /\ \A n \in DOMAIN graphicsQueue :
                graphicsQueue[n].frame = frames =>
                   {graphicsQueue[n].wait, graphicsQueue[n].signal,
                    graphicsQueue[n].fence, graphicsQueue[n].cb} = {iterSlot}
          /\ \A n \in DOMAIN presentQueue :
                presentQueue[n].frame = frames => presentQueue[n].wait = iterSlot)
    /\ [][(pc \in DrawFrameSteps /\ pc' # pc) =>
             \A k \in Slots \ {iterSlot} :
                /\ inFlightFences'[k] = inFlightFences[k]
                /\ commandBuffers'[k] = commandBuffers[k]
                /\ imageAvailableSemaphores'[k] = imageAvailableSemaphores[k]
                /\ renderFinishedSemaphores'[k] = renderFinishedSemaphores[k]
                /\ (k \in pendingAcquire') = (k \in pendingAcquire)]_vars

C8_Witness ==
    /\ pc = "advance"
    /\ iterSlot = 1
    /\ frames >= 4

\* C9 as stated: an error of acquire or present ends the invocation and the
\* process at once
C9_Claim ==
    \A n \in DOMAIN ops :
        (ops[n].op \in {"acquire", "present"} /\ ops[n].res # "VK_SUCCESS") =>
            /\ n = Len(ops)
            /\ pc = "failed"

\* C10: a failed queue submission makes DrawFrame throw: no present request
\* is made, currentFrame is not advanced, no DrawFrame runs afterwards
C10_SubmitFailureIsFatal ==
    /\ [](\A n \in DOMAIN ops :
            (ops[n].op = "submit" /\ ops[n].res # "VK_SUCCESS") =>
                /\ n = Len(ops)
                /\ pc = "failed"
                /\ exitCode = EXIT_FAILURE
                /\ currentFrame = iterSlot
                /\ framesDone = frames - 1
                /\ \A m \in DOMAIN presentQueue : presentQueue[m].frame # frames)
    /\ [][pc = "failed" => /\ pc' = "failed"
                           /\ frames' = frames
                           /\ ops' = ops
                           /\ presentQueue' = presentQueue
                           /\ currentFrame' = currentFrame]_vars

C10_Witness ==
    /\ pc = "failed"
    /\ ops[Len(ops)].op = "submit"
    /\ frames >= 2

\* ------------------------------------------- vocabulary, bring-up claims
Range(s) == {s[i] : i \in DOMAIN s}
Reverse(s) == [i \in 1 .. Len(s) |-> s[Len(s) + 1 - i]]
Count(s, o) == Cardinality({i \in DOMAIN s : s[i] = o})

RecordFailed ==
    \E n \in DOMAIN ops : ops[n].op = "record" /\ ops[n].res # "VK_SUCCESS"

\* some step of bring-up or of the loop has thrown
Raised ==
    \/ \E i \in DOMAIN ran : ~ran[i].ok
    \/ \E n \in DOMAIN ops : /\ ops[n].op \in {"record", "submit"}
                             /\ ops[n].res # "VK_SUCCESS"

\* the objects of the first i steps of InitVulkan
CreatedUpTo(i) == UNION {Range(MadeBy(InitVulkanSteps[j])) : j \in 1 .. i}

\* C11: when vkBeginCommandBuffer or vkEndCommandBuffer fails, DrawFrame
\* throws: the command buffer is not submitted, no submit and no present
\* request is made in that iteration, and nothing is made afterwards
C11_RecordFailureIsFatal ==
    /\ [](\A n \in DOMAIN ops :
            (ops[n].op = "record" /\ ops[n].res # "VK_SUCCESS") =>
                /\ n = Len(ops)
                /\ pc = "failed"
                /\ exitCode = EXIT_FAILURE
                /\ commandBuffers[ops[n].cb].state # "pending"
                /\ \A m \in DOMAIN graphicsQueue : graphicsQueue[m].frame # frames
                /\ \A m \in DOMAIN presentQueue : presentQueue[m].frame # frames)
    /\ [][RecordFailed => /\ pc' = "failed"
                          /\ ops' = ops
                          /\ frames' = frames
                          /\ graphicsQueue' = graphicsQueue
                          /\ presentQueue' = presentQueue
                          /\ commandBuffers' = commandBuffers]_vars

C11_Witness ==
    /\ pc = "failed"
    /\ ops[Len(ops)].op = "record"
    /\ ops[Len(ops)].res = "END_FAILED"
    /\ frames >= 2

\* C12: when a step of InitVulkan fails, InitVulkan stops there: no later
\* step runs, no object of a later step exists, the main loop never starts
C12_BringUpStopsAtFailure ==
    \A i \in DOMAIN ran :
        /\ ran[i].step = InitVulkanSteps[i]
        /\ ~ran[i].ok =>
              /\ i = Len(ran)
              /\ pc = "failed"
              /\ Range(created) \subseteq CreatedUpTo(i)
              /\ frames = 0
              /\ ops = <<>>
              /\ graphicsQueue = <<>>
              /\ presentQueue = <<>>

C12_Witness ==
    /\ pc = "failed"
    /\ Len(ran) = StepIndex("CreateFrameBuffers")
    /\ ~ran[Len(ran)].ok
    /\ Obj("framebuffer", 0) \in Range(created)

C14_Claim == exitCode \notin {None, EXIT_SUCCESS} => window # "open"

ChainKinds == {"swapChain", "imageView", "renderPass", "pipelineLayout",
               "graphicsPipeline", "framebuffer", "commandPool"}
IsChainObject(o) == o.kind \in ChainKinds
Chain(s) == SelectSeq(s, IsChainObject)

\* the length of the run of objects of one kind that s starts with
RECURSIVE RunLength(_)
RunLength(s) ==
    IF Len(s) <= 1 THEN Len(s)
    ELSE IF s[2].kind = s[1].kind THEN 1 + RunLength(Tail(s)) ELSE 1

\* the groups of s in reverse order, each group in its own order
RECURSIVE GroupReverse(_)
GroupReverse(s) ==
    IF s = <<>> THEN <<>>
    ELSE GroupReverse(SubSeq(s, RunLength(s) + 1, Len(s)))
         \o SubSeq(s, 1, RunLength(s))

PickSteps == {"PickPhysicalDevice", "PickPhysicalDevice.for",
              "PickPhysicalDevice.if"}

C18_NoSuitableDeviceAborts ==
    /\ [][(pc \in PickSteps /\ pc' \notin PickSteps /\ ~devices.offered) =>
              /\ pc' = "failed"
              /\ exitCode' = EXIT_FAILURE
              /\ physicalDevice' = NullHandle
              /\ created' = created]_vars
    /\ []((Len(ran) = StepIndex("PickPhysicalDevice") /\ ~ran[Len(ran)].ok) =>
              /\ pc = "failed"
              /\ frames = 0
              /\ Range(created) \subseteq
                    CreatedUpTo(StepIndex("PickPhysicalDevice") - 1))
    /\ [][pc = "failed" => pc' = "failed" /\ created' = created]_vars

C18_Witness ==
    /\ pc = "failed"
    /\ Len(ran) = StepIndex("PickPhysicalDevice")
    /\ devices.count = MaxDevices
    /\ devices.next = devices.count
    /\ ~devices.offered
    /\ CheckDeviceExtensionSupport(devices.seen)
    /\ devices.seen.formatCount > 0
    /\ devices.seen.presentModeCount > 0
    /\ Len(devices.seen.families) = MaxFamilies
    /\ ~IsComplete(FindQueueFamilies(devices.seen))

\* ---------------------------------------- vocabulary, negotiation claims
\* a + 1 as a number: the high half may reach Half
Succ(u) ==
    IF u.lo + 1 < Half THEN U32(u.hi, u.lo + 1) ELSE U32(u.hi + 1, 0)

\* a <= b
Le(a, b) == ~Gt(a, b)

minImageCount == support.capabilities.minImageCount
maxImageCount == support.capabilities.maxImageCount

\* C17 (as stated): the negotiation of CreateSwapChain ends in an error
\* whenever the format list or the present-mode list is empty
C17_Claim ==
    (support.formats = <<>> \/ support.presentModes = <<>>) =>
        pc \notin {"ChooseSwapExtent", "imageCount", "imageSharingMode",
                   "negotiated"}

\* C19 (as stated): when maxImageCount is 0 or minImageCount <= maxImageCount,
\* the count is at least minImageCount, and at most maxImageCount when that
\* is nonzero
C19_Claim ==
    (/\ pc = "negotiated"
     /\ maxImageCount = Zero \/ Le(minImageCount, maxImageCount)) =>
        /\ Le(minImageCount, createInfo.minImageCount)
        /\ maxImageCount # Zero => Le(createInfo.minImageCount, maxImageCount)

\* C20 (as stated): the count is minImageCount + 1 when maxImageCount is 0 or
\* minImageCount + 1 <= maxImageCount, and maxImageCount otherwise
C20_Claim ==
    pc = "negotiated" =>
        createInfo.minImageCount =
            IF maxImageCount = Zero \/ Le(Succ(minImageCount), maxImageCount)
                THEN Succ(minImageCount)
                ELSE maxImageCount

\* the steps of the negotiation, and those that pc has passed
NegotiationSteps == <<"CreateLogicalDevice", "ChooseSwapSurfaceFormat", "ChooseSwapPresentMode",
                      "ChooseSwapExtent", "imageCount", "imageSharingMode",
                      "negotiated", "CreateImageViews", "CreateFrameBuffers",
                      "built">>
Passed(step) ==
    \E i, j \in DOMAIN NegotiationSteps :
        NegotiationSteps[i] = step /\ NegotiationSteps[j] = pc /\ i < j

currentExtent == support.capabilities.currentExtent
minImageExtent == support.capabilities.minImageExtent
maxImageExtent == support.capabilities.maxImageExtent

\* v brought into lo .. hi
ClampInto(v, lo, hi) == IF Le(v, lo) THEN lo ELSE IF Le(hi, v) THEN hi ELSE v

\* C21 (as stated): the extent ChooseSwapExtent returns is within
\* minImageExtent .. maxImageExtent in width and in height, in both branches
C21_Claim ==
    pc = "imageCount" =>
        /\ Le(minImageExtent.width, createInfo.imageExtent.width)
        /\ Le(createInfo.imageExtent.width, maxImageExtent.width)
        /\ Le(minImageExtent.height, createInfo.imageExtent.height)
        /\ Le(createInfo.imageExtent.height, maxImageExtent.height)

\* C22 (as stated): ChooseSwapExtent returns currentExtent unless that is
\* (0xFFFFFFFF, 0xFFFFFFFF), and then the framebuffer size with width and
\* height each brought into the range of the capabilities
C22_Claim ==
    pc = "imageCount" =>
        createInfo.imageExtent =
            IF currentExtent # Extent(UINT32_MAX, UINT32_MAX)
                THEN currentExtent
                ELSE Extent(ClampInto(ToU32(framebufferSize.width),
                                      minImageExtent.width,
                                      maxImageExtent.width),
                            ClampInto(ToU32(framebufferSize.height),
                                      minImageExtent.height,
                                      maxImageExtent.height))

\* the first preferred entry of a list, the entry at index 0 when it has
\* none
RECURSIVE Preferred(_, _)
Preferred(formats, fallback) ==
    IF formats = <<>> THEN fallback
    ELSE IF Head(formats).format = "VK_FORMAT_B8G8R8A8_SRGB"
            /\ Head(formats).colorSpace = "VK_COLOR_SPACE_SRGB_NONLINEAR_KHR"
         THEN Head(formats)
         ELSE Preferred(Tail(formats), fallback)

\* C23: on a non-empty list ChooseSwapSurfaceFormat returns the first entry
\* that is B8G8R8A8_SRGB with SRGB_NONLINEAR, the entry at index 0 when there
\* is none; the result is an entry of the list and no error occurs
C23_FormatChoice ==
    support.formats # <<>> =>
        /\ pc # "crashed"
        /\ pc = "ChooseSwapSurfaceFormat" =>
              exitCode = None /\ ENABLED ChooseSwapSurfaceFormat
        /\ Passed("ChooseSwapSurfaceFormat") =>
              /\ exitCode = None
              /\ createInfo.surfaceFormat \in Range(support.formats)
              /\ createInfo.surfaceFormat =
                    Preferred(support.formats, support.formats[1])

C23_Witness ==
    /\ Passed("ChooseSwapSurfaceFormat")
    /\ Len(support.formats) = MaxListLen
    /\ support.formats[1].format = "VK_FORMAT_B8G8R8A8_SRGB"
    /\ support.formats[1].colorSpace # "VK_COLOR_SPACE_SRGB_NONLINEAR_KHR"
    /\ createInfo.surfaceFormat = support.formats[MaxListLen]
    /\ createInfo.surfaceFormat.colorSpace = "VK_COLOR_SPACE_SRGB_NONLINEAR_KHR"
    /\ createInfo.surfaceFormat.format = "VK_FORMAT_B8G8R8A8_SRGB"

\* C24: ChooseSwapPresentMode returns MAILBOX when the list holds MAILBOX
\* and FIFO otherwise, on every list, the empty one too, and never fails
C24_PresentModeChoice ==
    /\ pc = "ChooseSwapPresentMode" => ENABLED ChooseSwapPresentMode
    /\ Passed("ChooseSwapPresentMode") =>
          /\ exitCode = None
          /\ createInfo.presentMode =
                IF "VK_PRESENT_MODE_MAILBOX_KHR" \in Range(support.presentModes)
                    THEN "VK_PRESENT_MODE_MAILBOX_KHR"
                    ELSE "VK_PRESENT_MODE_FIFO_KHR"

C24_Witness ==
    /\ Passed("ChooseSwapPresentMode")
    /\ createInfo.presentMode = "VK_PRESENT_MODE_MAILBOX_KHR"
    /\ Len(support.presentModes) = MaxListLen
    /\ support.presentModes[1] = "VK_PRESENT_MODE_IMMEDIATE_KHR"

\* C25: concurrent sharing with the two indices (graphics, present) when the
\* families differ, exclusive sharing with no index when they are equal
C25_SharingMode ==
    Passed("imageSharingMode") =>
        LET indices == FindFrom(queueFamilies, 1, NoIndicies) IN
        IF indices.graphicsFamily # indices.presentFamily
            THEN /\ createInfo.sharing.imageSharingMode = "VK_SHARING_MODE_CONCURRENT"
                 /\ createInfo.sharing.queueFamilyIndexCount = 2
                 /\ createInfo.sharing.pQueueFamilyIndices =
                        <<indices.graphicsFamily, indices.presentFamily>>
            ELSE /\ createInfo.sharing.imageSharingMode = "VK_SHARING_MODE_EXCLUSIVE"
                 /\ createInfo.sharing.queueFamilyIndexCount = 0
                 /\ createInfo.sharing.pQueueFamilyIndices = <<>>

C25_Witness ==
    /\ Passed("imageSharingMode")
    /\ createInfo.sharing.imageSharingMode = "VK_SHARING_MODE_CONCURRENT"
    /\ Len(queueFamilies) = MaxFamilies
\* ------------------------------------------------------------------ C26
\* the objects of a kind that exist: created and not destroyed
Live(kind) == {i \in DOMAIN created :
                  /\ created[i].kind = kind
                  /\ created[i] \notin Range(destroyed)}

LiveIndices(kind) == {created[i].idx : i \in Live(kind)}

\* bring-up has succeeded and Cleanup has not run yet
BringUpSucceeded == ran = AllRan /\ pc # "done"

DrawFrameStep == pc \in DrawFrameSteps /\ pc' # pc

\* the entries a step has put at the end of a queue
Enqueued(before, after) ==
    {after[n] : n \in (Len(before) + 1) .. Len(after)}

\* the slots k # currentFrame keep their command buffer, fence and semaphores
OtherSlotsKept ==
    \A k \in Slots \ {currentFrame} :
        /\ commandBuffers'[k] = commandBuffers[k]
        /\ inFlightFences'[k] = inFlightFences[k]
        /\ imageAvailableSemaphores'[k] = imageAvailableSemaphores[k]
        /\ renderFinishedSemaphores'[k] = renderFinishedSemaphores[k]
        /\ (k \in pendingAcquire') = (k \in pendingAcquire)

\* C27: a step of DrawFrame creates and destroys nothing, keeps the image
\* list, the image views, the framebuffers, the render pass, the pipeline,
\* the negotiated extent and format and the number (2) of command buffers,
\* semaphores and fences; it touches only the command buffer and the
\* synchronisation objects of the slot currentFrame, and currentFrame itself,
\* which only the last step moves
C27_DrawFrameFootprint ==
    [][DrawFrameStep =>
          /\ UNCHANGED <<created, destroyed, window, physicalDevice, negVars>>
          /\ DOMAIN images' = DOMAIN images
          /\ DOMAIN commandBuffers' = Slots
          /\ DOMAIN inFlightFences' = Slots
          /\ DOMAIN imageAvailableSemaphores' = Slots
          /\ DOMAIN renderFinishedSemaphores' = Slots
          /\ Cardinality(Slots) = 2
          /\ OtherSlotsKept
          /\ \A e \in Enqueued(graphicsQueue, graphicsQueue') :
                 {e.wait, e.signal, e.fence, e.cb} = {currentFrame}
          /\ \A e \in Enqueued(presentQueue, presentQueue') :
                 e.wait = currentFrame
          /\ (currentFrame' # currentFrame => pc = "advance")]_vars

\* two iterations have gone through both slots and the objects of bring-up
\* are all there
C27_Witness ==
    /\ framesDone >= 2
    /\ pc = "loop"
    /\ created = AllCreated
    /\ Range(destroyed) = Range(ShaderModules)
    /\ \A k \in Slots : commandBuffers[k].state # "initial"

\* ------------------------------------------------------------------ C28
\* every signal placed on renderFinishedSemaphores[k] before iteration f has
\* been consumed: the semaphore is unsignaled and no present request of an
\* earlier iteration still waits on it
Consumed(k, f) ==
    /\ ~renderFinishedSemaphores[k]
    /\ \A n \in DOMAIN presentQueue :
           presentQueue[n].wait = k => presentQueue[n].frame >= f

\* C28: when DrawFrame enqueues the submission that signals
\* renderFinishedSemaphores[k], and when the queue later places that signal,
\* the previous signal of the semaphore has been consumed by the wait of the
\* previous present
C28_Claim ==
    [][/\ Len(graphicsQueue') > Len(graphicsQueue)
          => Consumed(graphicsQueue'[Len(graphicsQueue')].signal, frames)
       /\ \A n \in DOMAIN graphicsQueue :
             (Len(graphicsQueue') < Len(graphicsQueue)
                 /\ graphicsQueue' = RemoveAt(graphicsQueue, n))
             => Consumed(graphicsQueue[n].signal, graphicsQueue[n].frame)]_vars

\* ------------------------------------------------------------------ C29
\* present requests of the current invocation, by position in ops
Presents == {n \in DOMAIN ops : ops[n].op = "present"}

\* images the application has acquired and named in no present request
HeldImages ==
    {i \in DOMAIN images :
        /\ images[i] = "acquired"
        /\ \A n \in DOMAIN presentQueue : presentQueue[n].image # i}

\* C29: an iteration of DrawFrame that has returned has presented the index
\* its own acquire returned, and when the next iteration starts no image is
\* acquired without having been handed to a present request
C29_Claim ==
    IterationReturned =>
        /\ \E a \in AcquiresOk : \E p \in Presents :
               a < p /\ ops[p].idx = ops[a].idx
        /\ HeldImages = {}

\* ------------------------------------------------------------------ C30
\* submissions of the current invocation, by position in ops
Submits == {n \in DOMAIN ops : ops[n].op = "submit"}

\* the recording the claim asks for, on the framebuffer of image index idx
FullRecording(idx) ==
    <<"begin", <<"begin-render-pass", idx>>, "bind-pipeline", "set-viewport",
      "set-scissor", <<"draw", 3, 1>>, "end-render-pass", "end">>

\* what a call on a command buffer is in the words of the claim
Step(c) ==
    CASE c.cmd = "vkBeginCommandBuffer" -> "begin"
      [] c.cmd = "vkCmdBeginRenderPass" -> <<"begin-render-pass", c.framebuffer>>
      [] c.cmd = "vkCmdBindPipeline"    -> "bind-pipeline"
      [] c.cmd = "vkCmdSetViewport"     -> "set-viewport"
      [] c.cmd = "vkCmdSetScissor"      -> "set-scissor"
      [] c.cmd = "vkCmdDraw"            -> <<"draw", c.vertexCount, c.instanceCount>>
      [] c.cmd = "vkCmdEndRenderPass"   -> "end-render-pass"
      [] c.cmd = "vkEndCommandBuffer"   -> "end"

Steps(cmds) == [n \in DOMAIN cmds |-> Step(cmds[n])]

\* C30: a submission comes, in its own iteration, after the reset of the
\* slot's command buffer and after a complete recording (begin, render pass
\* begun on the framebuffer of the index this iteration acquired, bind
\* pipeline, viewport, scissor, one draw of 3 vertices and 1 instance, end
\* of the render pass, end), and it is the only submission since that
\* recording
C30_Claim ==
    \A n \in Submits :
        \E r \in DOMAIN ops : \E c \in DOMAIN ops : \E a \in AcquiresOk :
            /\ r < c /\ c < n /\ a < c
            /\ ops[r].op = "resetcb" /\ ops[r].cb = ops[n].cb
            /\ ops[c].op = "record" /\ ops[c].cb = ops[n].cb
            /\ ops[c].res = "VK_SUCCESS"
            /\ ops[c].idx = ops[a].idx
            /\ Steps(commandBuffers[ops[n].cb].cmds) = FullRecording(ops[a].idx)
            /\ Submits \cap (c .. Len(ops)) = {n}

\* ------------------------------------------------------------------ C31
\* a submission that names the fence of slot k is pending on the graphics
\* queue
SubmissionPendingOn(k) ==
    \E n \in DOMAIN graphicsQueue : graphicsQueue[n].fence = k

\* DrawFrame is between the reset of the fence and the submit
BetweenResetAndSubmit ==
    pc \in {"acquire", "resetcb", "record", "submit"}

\* C31: while the loop keeps running, a fence that is unsignaled is named by
\* a pending submission, except the fence of the current slot between its
\* reset and the submit; so at the fence wait of slot k the fence is
\* signaled or a pending submission will signal it
C31_FenceHasSignaller ==
    /\ pc # "failed" =>
          \A k \in Slots :
              ~inFlightFences[k] =>
                  \/ SubmissionPendingOn(k)
                  \/ k = currentFrame /\ BetweenResetAndSubmit
    /\ pc = "wait" =>
          inFlightFences[currentFrame] \/ SubmissionPendingOn(currentFrame)

\* the loop is at the fence wait of a slot used before, whose submission is
\* still pending
C31_Witness ==
    /\ pc = "wait"
    /\ frames > MAX_FRAMES_IN_FLIGHT
    /\ ~inFlightFences[currentFrame]
    /\ SubmissionPendingOn(currentFrame)

\* ------------------------------------------------------------------ C32
\* the submission of the other slot has not completed on the GPU
OtherSlotExecuting ==
    \E n \in DOMAIN graphicsQueue :
        graphicsQueue[n].cb = (currentFrame + MAX_FRAMES_IN_FLIGHT - 1)
                                  % MAX_FRAMES_IN_FLIGHT

\* C32: the fence wait of the iteration for slot k returns exactly when the
\* fence of slot k is signaled, whatever the fence of the other slot, so the
\* CPU works on slot k while the GPU still works on slot k - 1
C32_WaitsOnOwnFenceOnly ==
    pc = "wait" => (ENABLED WaitForFences <=> inFlightFences[currentFrame])

\* DrawFrame records or submits slot k while the submission of slot k - 1 is
\* still on the graphics queue
C32_Witness ==
    /\ pc \in {"record", "submit"}
    /\ OtherSlotExecuting
    /\ ~inFlightFences[(currentFrame + MAX_FRAMES_IN_FLIGHT - 1)
                          % MAX_FRAMES_IN_FLIGHT]

\* ------------------------------------------------------------------ C38
\* the families from which CreateLogicalDevice retrieves a queue
RetrievedFamilies ==
    LET indices == FindFrom(queueFamilies, 1, NoIndicies) IN
    {indices.graphicsFamily, indices.presentFamily}

\* the queue entries of the request that name family f
EntriesNaming(f) ==
    {n \in DOMAIN queueCreateInfos : queueCreateInfos[n].queueFamilyIndex = f}

\* C38 (as stated): the device creation request holds exactly one queue
\* entry for the graphics family and exactly one for the present family,
\* also when the two differ
C38_Claim ==
    Passed("CreateLogicalDevice") =>
        \A f \in RetrievedFamilies : Cardinality(EntriesNaming(f)) = 1

\* ------------------------------------------------------------------ C33
swapChainImageViews == swapChainMembers.swapChainImageViews
swapChainFramebuffers == swapChainMembers.swapChainFramebuffers

\* the framebuffer on which the recording for image index i begins its
\* render pass
RenderPassFramebuffer(i) ==
    LET cmds == RecordedCommands(i, "VK_SUCCESS")
        n == CHOOSE n \in DOMAIN cmds : cmds[n].cmd = "vkCmdBeginRenderPass"
    IN  cmds[n].framebuffer

\* the swap chain images a framebuffer writes to
ImagesOf(fb) ==
    {swapChainImageViews[swapChainFramebuffers[fb].attachments[a]].image :
        a \in DOMAIN swapChainFramebuffers[fb].attachments}

\* C33: for every index i of the chain, framebuffer i has the one attachment
\* view i, view i wraps image i, the framebuffer has the extent the chain
\* was created with, and the render pass recorded for index i writes to
\* image i only
C33_FramebufferTargets ==
    pc = "built" =>
        /\ DOMAIN swapChainFramebuffers = DOMAIN images
        /\ DOMAIN swapChainImageViews = DOMAIN images
        /\ \A i \in DOMAIN images :
              /\ swapChainFramebuffers[i].attachments = <<i>>
              /\ swapChainImageViews[i].image = i
              /\ swapChainFramebuffers[i].width = createInfo.imageExtent.width
              /\ swapChainFramebuffers[i].height = createInfo.imageExtent.height
              /\ ImagesOf(RenderPassFramebuffer(i)) = {i}

\* a chain of the largest size is built, with an extent taken from the
\* framebuffer size
C33_Witness ==
    /\ pc = "built"
    /\ swapChainImagesSize = NumImages
    /\ currentExtent.width = UINT32_MAX
    /\ swapChainFramebuffers[NumImages - 1].width # WindowExtent.width

\* ------------------------------------------------------------------ C34
\* the first n entries of a sequence of calls
Before(calls, n) == {calls[m] : m \in 1 .. (n - 1)}

\* the created objects that still exist once the first n destroy calls of
\* calls are made
AliveAfter(calls, n) ==
    {o \in Range(created') : FreedWith(o) \cap Before(calls, n + 1) = {}}

\* each create call of the step reads only objects created before it and not
\* destroyed
CreatesReadLive ==
    \A n \in (Len(created) + 1) .. Len(created') :
        Reads(created'[n]) \subseteq Before(created', n) \ Range(destroyed)

\* at each destroy call of the step, no object still alive uses the object
\* destroyed
DestroysUnused ==
    \A n \in (Len(destroyed) + 1) .. Len(destroyed') :
        \A o \in AliveAfter(destroyed', n) : destroyed'[n] \notin Retains(o)

\* the objects that outlive InitVulkan
Lasting == Range(AllCreated) \ Range(ShaderModules)

\* C34: every create call of InitVulkan reads only objects already created
\* and not destroyed, at every destroy call no object still alive references
\* the destroyed one, and DrawFrame runs only while all the objects are alive
C34_Lifetimes ==
    /\ [][CreatesReadLive /\ DestroysUnused]_vars
    /\ [](pc \in DrawFrameSteps =>
            Lasting \subseteq Range(created) \ Range(destroyed))

\* Cleanup has destroyed everything after a frame was drawn on a chain of the
\* largest size
C34_Witness ==
    /\ pc = "done"
    /\ framesDone >= 1
    /\ swapChainImagesSize = NumImages
    /\ Obj("instance", None) \in Range(destroyed)

\* ------------------------------------------------------------------ C36
\* the submissions on the graphics queue that wait on the semaphore of slot k
WaitingOn(k) == {n \in DOMAIN graphicsQueue : graphicsQueue[n].wait = k}

C35_DrawFrameReturns ==
    /\ [](pc = "wait" /\ frames <= MAX_FRAMES_IN_FLIGHT
            => inFlightFences[currentFrame])
    /\ (pc \in DrawFrameSteps) ~> (pc \in {"loop", "failed"})

\* ------------------------------------------------------------------ C37
\* every created object, the transient shader modules included, is destroyed
\* or freed with its pool
AllDestroyed ==
    \A o \in Range(created) : FreedWith(o) \cap Range(destroyed) # {}

\* the program has ended: Run has returned or an exception has left it
Terminated == pc \in {"done", "failed"}

\* C37: once the close flag is set MainLoop starts no further DrawFrame,
\* Cleanup begins only when the device has been found idle after the loop,
\* and with a GPU and a presentation engine that keep going the program
\* ends; when Run has returned every submitted frame has completed and
\* every created object is destroyed
C37_Shutdown ==
    /\ [][shouldClose => frames' = frames]_vars
    /\ [][pc' = "cleanup" /\ pc # "cleanup" => pc = "idle" /\ DeviceIdle]_vars
    /\ [](pc = "done" => DeviceIdle /\ AllDestroyed)
    /\ shouldClose ~> Terminated

====
